---- MODULE Spec2Model ----
(***************************************************************************)
(* A model of api/index.py: the payment intake handler process_payment     *)
(* and the helpers it calls (sanitize_input, send_to_telegram,             *)
(* generate_fake_transaction_id, detect_card_type, mask_sensitive_data).   *)
(*                                                                         *)
(* Python values are tagged records [t |-> tag, v |-> payload]:            *)
(*   str  : v is the sequence of the string's characters                   *)
(*   num  : v is the integer, bool: v is the boolean, none: v is 0         *)
(*   list : v is the sequence of the elements                              *)
(*   dict : v is the sequence of the entries [k |-> key characters,        *)
(*          v |-> value] in insertion order                                *)
(*   fault: an exception raised while computing the value                  *)
(* A character is a string of one character of ASCII or Latin-1, the       *)
(* character set of the model; U+0178 names the one result of str.upper()  *)
(* on it that a string of the module cannot hold.                          *)
(***************************************************************************)
EXTENDS Integers, Sequences, FiniteSets, TLC

VARIABLES
    inp,        \* argument of the helper applied
    out,        \* its result
    pc,         \* "start" before the helper ran, "done" after
    request,    \* the HTTP request process_payment has just answered
    response,   \* the HTTP response to it
    outbound,   \* the outbound calls (requests.post) made while handling it
    logged,     \* the records handed to the logger while handling it, in order
    net,        \* what the outbound call made while handling it came to
    inflight,   \* for each worker, the local variables of the handler that
                \* waits in requests.post, or NoFrame
    clock,      \* the wall clock, in seconds
    issued,     \* the transaction ids of the PAYMENT_DECLINED responses so far
    call        \* what a call of send_to_telegram outside the handler has done
                \* so far: the POSTs made, what the POST came to, the records
                \* handed to the logger

vars ==
    <<inp, out, pc, request, response, outbound, logged, net, inflight, clock, issued, call>>

----------------------------------------------------------------------------
(* Bounds of the model *)

MaxStrLen == 2      \* longest string drawn for the sanitizer
MaxDepth == 2       \* deepest nesting drawn for the sanitizer
MaxCardLen == 13    \* longest full-length card number drawn (from 12 digits on)
MaxShortLen == 3    \* longest string drawn over the short-input alphabet
MaxMaskDepth == 2   \* deepest nesting drawn for the redactor
MaxClock == 2       \* last second the wall clock reaches
MaxRequests == 2    \* requests served while the issued ids are recorded
MaxPad == 4         \* message lengths drawn: 0..MaxPad and 4096 -/+ MaxPad

----------------------------------------------------------------------------
(* Python values *)

Str(s) == [t |-> "str", v |-> s]
Num(n) == [t |-> "num", v |-> n]
Bool(b) == [t |-> "bool", v |-> b]
None == [t |-> "none", v |-> 0]
List(xs) == [t |-> "list", v |-> xs]
Dict(es) == [t |-> "dict", v |-> es]
Fault(e) == [t |-> "fault", v |-> e]
Entry(k, x) == [k |-> k, v |-> x]

IsStr(x) == x.t = "str"
IsDict(x) == x.t = "dict"
IsList(x) == x.t = "list"
IsFault(x) == x.t = "fault"

\* bool(value)
Truthy(x) ==
    CASE x.t = "str" -> x.v # <<>>
      [] x.t = "num" -> x.v # 0
      [] x.t = "bool" -> x.v
      [] x.t = "none" -> FALSE
      [] x.t = "list" -> x.v # <<>>
      [] x.t = "dict" -> x.v # <<>>

\* the keys of a dict, in order
Keys(d) == [i \in 1..Len(d.v) |-> d.v[i].k]

\* the set of sequences over S of length at most n
RECURSIVE SeqsUpTo(_, _)
SeqsUpTo(S, n) ==
    IF n = 0 THEN {<<>>}
    ELSE LET shorter == SeqsUpTo(S, n - 1)
         IN  shorter \cup {Append(s, c) : s \in {x \in shorter : Len(x) = n - 1}, c \in S}

\* str.replace(c, r) for a single character c
RECURSIVE Replace(_, _, _)
Replace(s, c, r) ==
    IF s = <<>> THEN <<>>
    ELSE (IF Head(s) = c THEN r ELSE <<Head(s)>>) \o Replace(Tail(s), c, r)

\* sub in s
Contains(s, sub) ==
    \E i \in 0..(Len(s) - Len(sub)) : SubSeq(s, i + 1, i + Len(sub)) = sub

----------------------------------------------------------------------------
(* sanitize_input *)

LT == <<"&", "l", "t", ";">>
GT == <<"&", "g", "t", ";">>

\* a sanitizer that forgets the second replace
SanitizeStrNoGt(s) == Replace(s, "<", LT)

SanitizeStr(s) == Replace(Replace(s, "<", LT), ">", GT)

RECURSIVE sanitize_input(_)
sanitize_input(x) ==
    IF IsStr(x) THEN Str(SanitizeStr(x.v))
    ELSE IF IsDict(x)
         THEN Dict([i \in 1..Len(x.v) |-> Entry(x.v[i].k, sanitize_input(x.v[i].v))])
    ELSE IF IsList(x)
         THEN List([i \in 1..Len(x.v) |-> sanitize_input(x.v[i])])
    ELSE x

\* The values drawn for the sanitizer: strings over the two markup
\* characters, the escape introducer and a plain letter; the other scalars;
\* lists and dicts of them nested up to MaxDepth.
SanChars == {"<", ">", "&", "a"}
SanAtoms == {Str(s) : s \in SeqsUpTo(SanChars, MaxStrLen)} \cup {Num(7), Bool(TRUE), None}
SanKeys == {<<"k">>, <<"<", "b", ">">>}

RECURSIVE SanValues(_)
SanValues(d) ==
    IF d = 0 THEN SanAtoms
    ELSE LET below == SanValues(d - 1)
         IN  below
             \cup {List(<<>>), Dict(<<>>)}
             \cup {List(<<x>>) : x \in below}
             \cup {List(<<Str(<<"<">>), x>>) : x \in below}
             \cup {Dict(<<Entry(k, x)>>) : k \in SanKeys, x \in below}
             \cup {Dict(<<Entry(<<"k">>, x), Entry(<<"j">>, Str(<<">", "a">>))>>) : x \in below}

\* the string values anywhere in x
RECURSIVE StringsIn(_)
StringsIn(x) ==
    IF IsStr(x) THEN {x.v}
    ELSE IF IsDict(x) THEN UNION {StringsIn(x.v[i].v) : i \in 1..Len(x.v)}
    ELSE IF IsList(x) THEN UNION {StringsIn(x.v[i]) : i \in 1..Len(x.v)}
    ELSE {}

\* x and y have the same shape: same tags, same keys in the same order,
\* same lengths, and equal scalars other than strings
RECURSIVE SameShape(_, _)
SameShape(x, y) ==
    /\ x.t = y.t
    /\ IF IsDict(x)
       THEN /\ Keys(x) = Keys(y)
            /\ \A i \in 1..Len(x.v) : SameShape(x.v[i].v, y.v[i].v)
       ELSE IF IsList(x)
       THEN /\ Len(x.v) = Len(y.v)
            /\ \A i \in 1..Len(x.v) : SameShape(x.v[i], y.v[i])
       ELSE IF IsStr(x) THEN TRUE
       ELSE x = y

----------------------------------------------------------------------------
(* detect_card_type *)

Digits == <<"0", "1", "2", "3", "4", "5", "6", "7", "8", "9">>
DigitSet == {Digits[i] : i \in 1..10}
DigitVal(c) == (CHOOSE i \in 1..10 : Digits[i] = c) - 1

\* the characters besides 0-9 that have the Unicode property Digit:
\* str.isdigit() accepts them and int() raises ValueError on them
SuperDigits == {"¹", "²", "³"}

\* str.isdigit(): non-empty and every character a digit
IsDigitStr(s) == s # <<>> /\ \A i \in 1..Len(s) : s[i] \in DigitSet \cup SuperDigits

\* int(s) returns: every character is one of 0-9
IntOk(s) == \A i \in 1..Len(s) : s[i] \in DigitSet

\* what detect_card_type yields when int() raises
CardFault == "ValueError"

IsCardFault(r) == r = CardFault

\* int(s) for a string of the digits 0-9
RECURSIVE IntOf(_)
IntOf(s) ==
    IF s = <<>> THEN 0
    ELSE 10 * IntOf(SubSeq(s, 1, Len(s) - 1)) + DigitVal(s[Len(s)])

\* s[:n]
Prefix(s, n) == SubSeq(s, 1, IF n < Len(s) THEN n ELSE Len(s))

\* the elif chain on the first two digits; "" when no branch returns
\* int(card_number[:3]) is evaluated only when the first two digits are none
\* of 51..55, 34, 37, 36, 38, 39 and the number has four characters or more
FirstTwoRule(s) ==
    LET first_two == IntOf(Prefix(s, 2))
    IN  IF ~IntOk(Prefix(s, 2)) THEN CardFault
        ELSE IF 51 <= first_two /\ first_two <= 55 THEN "Mastercard"
        ELSE IF first_two \in {34, 37} THEN "American Express"
        ELSE IF first_two \in {36, 38, 39} THEN "Diners Club"
        ELSE IF Len(s) >= 4 /\ ~IntOk(Prefix(s, 3)) THEN CardFault
        ELSE IF Len(s) >= 4 /\ 300 <= IntOf(Prefix(s, 3)) /\ IntOf(Prefix(s, 3)) <= 305
             THEN "Diners Club"
        ELSE IF first_two = 35 THEN "JCB"
        ELSE ""

\* the 2-series range mistyped as 2221..2270
FirstFourRuleNarrow(s) ==
    LET first_four == IntOf(Prefix(s, 4))
    IN  IF ~IntOk(Prefix(s, 4)) THEN CardFault
        ELSE IF \/ first_four = 6011
           \/ (644 <= first_four /\ first_four <= 649)
           \/ IntOf(Prefix(s, 2)) = 65
        THEN "Discover"
        ELSE IF 2221 <= first_four /\ first_four <= 2270 THEN "Mastercard"
        ELSE ""

\* the two ifs on the first four digits; "" when neither returns
FirstFourRule(s) ==
    LET first_four == IntOf(Prefix(s, 4))
    IN  IF ~IntOk(Prefix(s, 4)) THEN CardFault
        ELSE IF \/ first_four = 6011
           \/ (644 <= first_four /\ first_four <= 649)
           \/ IntOf(Prefix(s, 2)) = 65
        THEN "Discover"
        ELSE IF 2221 <= first_four /\ first_four <= 2720 THEN "Mastercard"
        ELSE ""

\* the detection on a string that passed isdigit(); the first branch that
\* returns or raises decides
ClassifyDigits(s) ==
    IF Len(s) >= 1 /\ s[1] = "4" THEN "Visa"
    ELSE LET two == IF Len(s) >= 2 THEN FirstTwoRule(s) ELSE ""
             four == IF Len(s) >= 4 THEN FirstFourRule(s) ELSE ""
         IN  IF two # "" THEN two
             ELSE IF four # "" THEN four
             ELSE "Unknown"

\* the characters of s that are digits 0-9
RECURSIVE OnlyDigits(_)
OnlyDigits(s) ==
    IF s = <<>> THEN <<>>
    ELSE (IF Head(s) \in DigitSet THEN <<Head(s)>> ELSE <<>>) \o OnlyDigits(Tail(s))

\* a detector that drops every non-digit character instead of the spaces
DetectStrippingAll(x) ==
    IF ~Truthy(x) \/ ~IsStr(x) THEN "Unknown"
    ELSE LET card_number == OnlyDigits(x.v)
         IN  IF ~IsDigitStr(card_number) THEN "Unknown"
             ELSE ClassifyDigits(card_number)

\* The result is the brand, or the name of the exception raised: int()
\* rejects the digits isdigit() accepts beyond 0-9.
detect_card_type(x) ==
    IF ~Truthy(x) \/ ~IsStr(x) THEN "Unknown"
    ELSE LET card_number == Replace(x.v, " ", <<>>)
         IN  IF ~IsDigitStr(card_number) THEN "Unknown"
             ELSE ClassifyDigits(card_number)

\* The card numbers drawn: every four-digit prefix padded with ones to each
\* length from 12 to MaxCardLen; every string of at most MaxShortLen
\* characters over a few digits, the space and the hyphen; and some grouped
\* and short numbers.
Ones(n) == [i \in 1..n |-> "1"]
FourDigits == {<<a, b, c, d>> : a \in DigitSet, b \in DigitSet, c \in DigitSet, d \in DigitSet}
LongCards == {Str(p \o Ones(n - 4)) : p \in FourDigits, n \in 12..MaxCardLen}
ShortChars == {"4", "3", "0", "6", " ", "-"}
ShortCards == {Str(s) : s \in SeqsUpTo(ShortChars, MaxShortLen)}
Card4111Hyphen == <<"4", "1", "1", "1", "-", "1", "1", "1", "1">>
Card4111Spaced == <<"4", "1", "1", "1", " ", "1", "1", "1", "1", " ", "1", "1", "1", "1", " ", "1", "1", "1", "1">>
Card4111Full == <<"4", "1", "1", "1", "1", "1", "1", "1", "1", "1", "1", "1", "1", "1", "1", "1">>
Card5100Hyphen == <<"5", "1", "0", "0", "-", "1", "1", "1", "1", "-", "1", "1", "1", "1", "-", "1", "1", "1", "1">>
Sup2 == "²"
SuperCards ==
    {Str(<<Sup2>>), Str(<<"5", Sup2>>), Str(<<Sup2, Sup2>>), Str(<<"4", Sup2>>),
     Str(<<"5", "1", "³", "1">>), Str(<<"3", "5", Sup2>>), Str(<<"3", "5", Sup2, "1">>),
     Str(<<"3", "6", Sup2, "1">>), Str(<<"3", "0", Sup2, "1">>), Str(<<"6", "5", "1", Sup2>>),
     Str(<<"5", " ", Sup2>>), Str(<<"2", "3", "0", Sup2>> \o Ones(8))}
OtherCards ==
    {Str(Card4111Hyphen), Str(Card4111Spaced), Str(Card5100Hyphen),
     Str(<<"6", "5">>), Str(<<"6", "5", "0", "0">>), Str(<<"3", "0", "0">>),
     Str(<<"3", "0", "0", "0">>), Str(<<"5", "1">>), Str(<<"2", "3", "0", "0">>),
     Num(4111), Num(0), Bool(TRUE), None}
CardInputs == LongCards \cup ShortCards \cup OtherCards \cup SuperCards

----------------------------------------------------------------------------
(* The classification as the specification words it: brand tags and an    *)
(* ordered list of rules on a string of digits, the first match winning.  *)

SpecOrder(s) ==
    LET d1 == IntOf(Prefix(s, 1))
        d2 == IntOf(Prefix(s, 2))
        d3 == IntOf(Prefix(s, 3))
        d4 == IntOf(Prefix(s, 4))
    IN  IF d1 = 4 THEN "VISA"
        ELSE IF d2 \in {34, 37} THEN "AMEX"
        ELSE IF d2 \in 51..55 \/ d4 \in 2221..2720 THEN "MASTERCARD"
        ELSE IF d4 = 6011 \/ d4 \in 644..649 \/ d2 = 65 THEN "DISCOVER"
        ELSE IF d2 = 35 THEN "JCB"
        ELSE IF d2 \in {36, 38, 39} \/ d3 \in 300..305 THEN "DINERS"
        ELSE "UNKNOWN"

\* the tag the specification gives to a string the code returns
TagOf(name) ==
    CASE name = "Visa" -> "VISA"
      [] name = "Mastercard" -> "MASTERCARD"
      [] name = "American Express" -> "AMEX"
      [] name = "Discover" -> "DISCOVER"
      [] name = "JCB" -> "JCB"
      [] name = "Diners Club" -> "DINERS"
      [] name = "Unknown" -> "UNKNOWN"

----------------------------------------------------------------------------
(* mask_sensitive_data *)

UpperAlpha ==
    <<"A", "B", "C", "D", "E", "F", "G", "H", "I", "J", "K", "L", "M",
      "N", "O", "P", "Q", "R", "S", "T", "U", "V", "W", "X", "Y", "Z",
      "À", "Á", "Â", "Ã", "Ä", "Å", "Æ", "Ç", "È", "É", "Ê", "Ë", "Ì", "Í", "Î",
      "Ï", "Ð", "Ñ", "Ò", "Ó", "Ô", "Õ", "Ö", "Ø", "Ù", "Ú", "Û", "Ü", "Ý", "Þ">>
LowerAlpha ==
    <<"a", "b", "c", "d", "e", "f", "g", "h", "i", "j", "k", "l", "m",
      "n", "o", "p", "q", "r", "s", "t", "u", "v", "w", "x", "y", "z",
      "à", "á", "â", "ã", "ä", "å", "æ", "ç", "è", "é", "ê", "ë", "ì", "í", "î",
      "ï", "ð", "ñ", "ò", "ó", "ô", "õ", "ö", "ø", "ù", "ú", "û", "ü", "ý", "þ">>

\* c.lower(): the 26 letters and the 30 accented capitals of Latin-1
LowerChar(c) ==
    IF \E i \in 1..56 : UpperAlpha[i] = c
    THEN LowerAlpha[CHOOSE i \in 1..56 : UpperAlpha[i] = c]
    ELSE c

\* c.upper(), a string: sharp s becomes SS, the micro sign the Greek capital
\* mu, y with diaeresis the capital U+0178
UpperChar(c) ==
    IF \E i \in 1..56 : LowerAlpha[i] = c
    THEN <<UpperAlpha[CHOOSE i \in 1..56 : LowerAlpha[i] = c]>>
    ELSE IF c = "ß" THEN <<"S", "S">>
    ELSE IF c = "µ" THEN <<"Μ">>
    ELSE IF c = "ÿ" THEN <<"U+0178">>
    ELSE <<c>>

\* str.lower() and str.upper()
Lower(s) == [i \in 1..Len(s) |-> LowerChar(s[i])]
RECURSIVE Upper(_)
Upper(s) == IF s = <<>> THEN <<>> ELSE UpperChar(Head(s)) \o Upper(Tail(s))

W_card == <<"c", "a", "r", "d">>
W_number == <<"n", "u", "m", "b", "e", "r">>
W_cvv == <<"c", "v", "v">>
W_cvc == <<"c", "v", "c">>
W_exp == <<"e", "x", "p">>
W_password == <<"p", "a", "s", "s", "w", "o", "r", "d">>
W_pass == <<"p", "a", "s", "s">>

Mask4 == <<"*", "*", "*", "*">>
Mask3 == <<"*", "*", "*">>
MaskExp == <<"*", "*", "/", "*", "*">>
Mask8 == <<"*", "*", "*", "*", "*", "*", "*", "*">>
MaskLead == <<"*", "*", "*", "*", "-", "*", "*", "*", "*", "-", "*", "*", "*", "*", "-">>

\* the string pre + str(x) where x is not a string
Fmt(pre, x) == [t |-> "fmt", v |-> [pre |-> pre, arg |-> x]]

\* s[-4:]
Last4(s) == SubSeq(s, IF Len(s) > 4 THEN Len(s) - 3 ELSE 1, Len(s))

\* f"****-****-****-{value[-4:]}" if value and len(value) > 4 else '****'
\* len() raises on a number or a boolean, value[-4:] raises on a dict
MaskCard(value) ==
    IF ~Truthy(value) THEN Str(Mask4)
    ELSE IF value.t \in {"num", "bool"} THEN Fault("TypeError: no len()")
    ELSE IF Len(value.v) <= 4 THEN Str(Mask4)
    ELSE IF IsStr(value) THEN Str(MaskLead \o Last4(value.v))
    ELSE IF IsList(value) THEN Fmt(MaskLead, List(Last4(value.v)))
    ELSE Fault("dict sliced")

\* the first fault among the values xs, or None
FirstFault(xs) ==
    IF \E i \in 1..Len(xs) : IsFault(xs[i])
    THEN xs[CHOOSE i \in 1..Len(xs) : IsFault(xs[i]) /\ \A j \in 1..(i - 1) : ~IsFault(xs[j])]
    ELSE None

RECURSIVE mask_sensitive_data(_)
mask_sensitive_data(data) ==
    IF IsDict(data)
    THEN LET masked == [i \in 1..Len(data.v) |->
                 LET lower_key == Lower(data.v[i].k)
                     value == data.v[i].v
                 IN  IF Contains(lower_key, W_card) \/ Contains(lower_key, W_number)
                     THEN MaskCard(value)
                     ELSE IF Contains(lower_key, W_cvv) \/ Contains(lower_key, W_cvc)
                     THEN Str(Mask3)
                     ELSE IF Contains(lower_key, W_exp) THEN Str(MaskExp)
                     ELSE IF Contains(lower_key, W_password) \/ Contains(lower_key, W_pass)
                     THEN Str(Mask8)
                     ELSE mask_sensitive_data(value)]
         IN  IF FirstFault(masked) # None THEN FirstFault(masked)
             ELSE Dict([i \in 1..Len(data.v) |-> Entry(data.v[i].k, masked[i])])
    ELSE IF IsList(data)
    THEN LET items == [i \in 1..Len(data.v) |-> mask_sensitive_data(data.v[i])]
         IN  IF FirstFault(items) # None THEN FirstFault(items) ELSE List(items)
    ELSE data

\* The records drawn for the redactor
K_cvv == <<"c", "v", "v">>
K_CVC == <<"C", "V", "C">>
K_card_cvv == <<"c", "a", "r", "d", "_", "c", "v", "v">>
K_card_number == <<"c", "a", "r", "d", "_", "n", "u", "m", "b", "e", "r">>
K_expiry == <<"e", "x", "p", "i", "r", "y">>
K_Password == <<"P", "a", "s", "s", "w", "o", "r", "d">>
K_name == <<"n", "a", "m", "e">>
K_email == <<"e", "m", "a", "i", "l">>
MaskKeys == {K_cvv, K_CVC, K_card_cvv, K_card_number, K_expiry, K_Password, K_name}

D123 == <<"1", "2", "3">>
D1234 == <<"1", "2", "3", "4">>
D12345 == <<"1", "2", "3", "4", "5">>
FiveNums == List(<<Num(1), Num(2), Num(3), Num(4), Num(5)>>)
FiveEntries ==
    Dict(<<Entry(<<"a">>, Str(D123)), Entry(<<"b">>, Str(D123)), Entry(<<"c">>, Str(D123)),
           Entry(<<"d">>, Str(D123)), Entry(<<"e">>, Str(D123))>>)
MaskLeaves ==
    {Str(<<>>), Str(D123), Str(D1234), Str(D12345), Num(0), Num(12345), Bool(TRUE), None,
     FiveNums, List(<<Num(1)>>), FiveEntries}

RECURSIVE MaskValues(_)
MaskValues(d) ==
    IF d = 0 THEN MaskLeaves
    ELSE LET below == MaskValues(d - 1)
         IN  below
             \cup {Dict(<<Entry(k, x)>>) : k \in MaskKeys, x \in below}
             \cup {Dict(<<Entry(K_name, Str(D12345)), Entry(K_cvv, x)>>) : x \in below}
             \cup {List(<<x>>) : x \in below}

----------------------------------------------------------------------------
(* Time and transaction ids *)

TwoDigits(n) == <<Digits[((n \div 10) % 10) + 1], Digits[(n % 10) + 1]>>
FourDigitsOf(n) == TwoDigits(n \div 100) \o TwoDigits(n % 100)

\* The wall clock counts the seconds since 2025-01-01 00:00:00.
\* datetime.now().strftime('%Y%m%d%H%M%S')
StampCompact(now) ==
    <<"2", "0", "2", "5", "0", "1", "0", "1">>
        \o TwoDigits(now \div 3600) \o TwoDigits((now \div 60) % 60) \o TwoDigits(now % 60)

\* datetime.now().strftime("%Y-%m-%d %H:%M:%S")
StampDisplay(now) ==
    <<"2", "0", "2", "5", "-", "0", "1", "-", "0", "1", " ">>
        \o TwoDigits(now \div 3600) \o <<":">> \o TwoDigits((now \div 60) % 60)
        \o <<":">> \o TwoDigits(now % 60)

\* an id whose timestamp stops at the minute ('%Y%m%d%H%M')
TransactionIdToMinute(now, random_num) ==
    <<"T", "X", "N", "-">>
        \o <<"2", "0", "2", "5", "0", "1", "0", "1">>
        \o TwoDigits(now \div 3600) \o TwoDigits((now \div 60) % 60)
        \o <<"-">> \o FourDigitsOf(random_num)

\* f"TXN-{timestamp}-{random_num}", random_num drawn from 1000..9999
generate_fake_transaction_id(now, random_num) ==
    <<"T", "X", "N", "-">> \o StampCompact(now) \o <<"-">> \o FourDigitsOf(random_num)

\* what the random generator is let to give to one request: the number
\* random.randint(1000, 9999) returns and the position random.choice picks
\* in a pool of four
Draws == {[random_num |-> 1000, pick |-> 1], [random_num |-> 9999, pick |-> 4]}

----------------------------------------------------------------------------
(* send_to_telegram *)

\* What a call of requests.post can come to. requests follows, inside the
\* call, every answer that has one of the statuses 301, 302, 303, 307, 308
\* and a Location header; hops are the statuses of the answers followed, in
\* order. The call then ends with the response it returns (code is its
\* status; a 301..308 returned has no Location), or with an exception of
\* requests: no connection, no answer within the 10 seconds, or one more
\* redirect after the 30 that requests follows.
RedirectStati == {301, 302, 303, 307, 308}
Status(code) == [kind |-> "status", code |-> code, hops |-> <<>>]
ConnectionError == [kind |-> "ConnectionError", code |-> 0, hops |-> <<>>]
Timeout == [kind |-> "Timeout", code |-> 0, hops |-> <<>>]
TooManyRedirects(c) == [kind |-> "TooManyRedirects", code |-> c, hops |-> [i \in 1..30 |-> c]]
NoOutcome == [kind |-> "none", code |-> 0, hops |-> <<>>]
After(hops, outcome) == [outcome EXCEPT !.hops = hops]

\* the chains of redirects drawn, and the ends of a call drawn
Chains ==
    {<<>>, <<301>>, <<302>>, <<303>>, <<307>>, <<308>>, <<307, 302>>, <<302, 307>>,
     <<307, 308>>}
Ends ==
    {Status(c) : c \in {200, 204, 299, 302, 304, 399, 400, 404, 499, 500, 599}}
        \cup {ConnectionError, Timeout}

\* the outcomes drawn for the notifier alone, and for the handler
Outcomes == {After(h, e) : h \in Chains, e \in Ends} \cup {TooManyRedirects(302)}
DeliveryOutcomes ==
    {Status(200), Status(304), Status(404), After(<<302>>, Status(404)),
     After(<<307>>, Status(200)), ConnectionError, Timeout}

\* response.raise_for_status() raises HTTPError for the statuses 400..599
RaisesForStatus(code) == 400 <= code /\ code < 600

\* The result of a call of send_to_telegram is the calls of requests.post
\* made, the value returned and the records handed to the logger.
SendError == [level |-> "error", msg |-> "Error sending to Telegram", data |-> None]

\* an HTTP request sent: its method and the message in its body, or None
Sent(method, text) == [method |-> method, text |-> text]

\* The request sent after req when an answer with the status c is followed:
\* 301, 302 and 303 turn a POST into a GET and drop the body, 307 and 308
\* send the same request again.
NextRequest(req, c) == IF c \in {307, 308} THEN req ELSE Sent("GET", None)

\* the requests sent after req when the answers with the statuses hops are
\* followed
RECURSIVE Follow(_, _)
Follow(req, hops) ==
    IF hops = <<>> THEN <<>>
    ELSE <<NextRequest(req, Head(hops))>> \o Follow(NextRequest(req, Head(hops)), Tail(hops))

\* the HTTP requests a call of requests.post sends when it comes to outcome
Wire(message, outcome) ==
    <<Sent("POST", message)>> \o Follow(Sent("POST", message), outcome.hops)

\* a call that is not made for an empty or an oversized message
PostWithLengthGate(message) ==
    IF IsStr(message) /\ (Len(message.v) = 0 \/ Len(message.v) > 4096)
    THEN <<>>
    ELSE <<[text |-> message, parse_mode |-> "HTML", wire |-> <<Sent("POST", message)>>]>>

\* The calls of requests.post(url, json=payload, timeout=10): one, carrying
\* the message, whatever the message is; wire holds the HTTP requests the
\* call has sent, the POST of the message until an answer comes.
requests_post(message) ==
    <<[text |-> message, parse_mode |-> "HTML", wire |-> <<Sent("POST", message)>>]>>

\* The calls posts after requests has received, inside the call, an answer
\* with the status c and a Location header and has sent the request that
\* follows it.
Redirected(posts, c) ==
    [i \in 1..Len(posts) |->
        [posts[i] EXCEPT !.wire = @ \o <<NextRequest(@[Len(@)], c)>>]]

\* after the redirects hops, a call that comes to one of outcomes can be
\* answered by a redirect with the status c
CanFollow(hops, c, outcomes) ==
    \E o \in outcomes :
        /\ Len(hops) < Len(o.hops)
        /\ SubSeq(o.hops, 1, Len(hops) + 1) = Append(hops, c)

\* the outcomes of outcomes a call can come to after the redirects hops
EndsAfter(hops, outcomes) == {o \in outcomes : o.hops = hops}

\* requests.post returns a response and raise_for_status() does not raise
Delivered(outcome) == outcome.kind = "status" /\ ~RaisesForStatus(outcome.code)

\* requests.post raises Timeout, ConnectionError or TooManyRedirects,
\* raise_for_status raises HTTPError: all are RequestException, caught and
\* logged, and the result is False; every other status of the response
\* returned gives True
send_to_telegram(message, outcome) ==
    [posts |-> [i \in 1..Len(requests_post(message)) |->
                   [requests_post(message)[i] EXCEPT !.wire = Wire(message, outcome)]],
     ok |-> Delivered(outcome),
     logged |-> IF Delivered(outcome) THEN <<>> ELSE <<SendError>>]

----------------------------------------------------------------------------
(* process_payment *)

K_amount == <<"a", "m", "o", "u", "n", "t">>
K_payment_method == <<"p", "a", "y", "m", "e", "n", "t", "_", "m", "e", "t", "h", "o", "d">>
K_user_info == <<"u", "s", "e", "r", "_", "i", "n", "f", "o">>
K_payment_details == <<"p", "a", "y", "m", "e", "n", "t", "_", "d", "e", "t", "a", "i", "l", "s">>
K_crypto_type == <<"c", "r", "y", "p", "t", "o", "_", "t", "y", "p", "e">>
K_wallet == <<"w", "a", "l", "l", "e", "t">>
M_card == <<"c", "a", "r", "d">>
M_paypal == <<"p", "a", "y", "p", "a", "l">>
M_crypto == <<"c", "r", "y", "p", "t", "o">>
M_bank == <<"b", "a", "n", "k">>
M_unknown == <<"u", "n", "k", "n", "o", "w", "n">>
NA == Str(<<"N", "/", "A">>)

\* dict.get(key, default)
Get(d, key, default) ==
    IF \E i \in 1..Len(d.v) : d.v[i].k = key
    THEN d.v[CHOOSE i \in 1..Len(d.v) : d.v[i].k = key].v
    ELSE default

\* payment_details.get(key, default) if isinstance(payment_details, dict) else default
GetIfDict(x, key, default) == IF IsDict(x) THEN Get(x, key, default) ELSE default

\* a request body that get_json() cannot parse
Unparseable == Fault("BadRequest")

\* a loader that reads an unparseable body as an empty mapping
LoadDataSilent(req) ==
    IF req.method = "GET" THEN req.args
    ELSE IF req.is_json
         THEN (IF req.json = Unparseable THEN Dict(<<>>) ELSE req.json)
    ELSE req.form

\* request.args.to_dict(), request.get_json() or request.form.to_dict()
LoadData(req) ==
    IF req.method = "GET" THEN req.args
    ELSE IF req.is_json THEN req.json
    ELSE req.form

\* one rendered line of the message: kind names the template line, label is
\* the key of a user-info line, text is the value formatted into it
Line(kind, label, text) == [kind |-> kind, label |-> label, text |-> text]
Tag(name) == [t |-> "tag", v |-> name]

BasicInfo(amount, payment_method, req, timestamp) ==
    <<Line("header", <<>>, None),
      Line("Amount", <<>>, amount),
      Line("Method", <<>>, Str(Upper(payment_method))),
      Line("IP", <<>>, Str(req.remote_addr)),
      Line("Time", <<>>, Str(timestamp)),
      Line("HTTP Method", <<>>, Tag(req.method))>>

UserInfo(user_info) ==
    IF IsDict(user_info)
    THEN [i \in 1..Len(user_info.v) |-> Line("user", user_info.v[i].k, user_info.v[i].v)]
    ELSE <<Line("User Info", <<>>, user_info)>>

\* the text of the card type line: a fault when detect_card_type raises
CardTypeText(card_number) ==
    LET r == detect_card_type(card_number)
    IN  IF IsCardFault(r) THEN Fault(r) ELSE Tag(r)

\* a details block that shows the last four characters of the number only
\* and leaves the CVV out
PaymentDetailsMasked(payment_method, payment_details) ==
    IF payment_method = M_card
    THEN LET card_number == GetIfDict(payment_details, K_card_number, Str(<<>>))
         IN  <<Line("Card Number", <<>>,
                    IF IsStr(card_number) THEN MaskCard(card_number) ELSE Str(Mask4)),
               Line("Card Type", <<>>, CardTypeText(card_number)),
               Line("Expiry", <<>>, GetIfDict(payment_details, K_expiry, NA)),
               Line("Name", <<>>, GetIfDict(payment_details, K_name, NA))>>
    ELSE IF payment_method = M_paypal
    THEN <<Line("PayPal Email", <<>>, GetIfDict(payment_details, K_email, NA))>>
    ELSE IF payment_method = M_crypto
    THEN <<Line("Crypto Type", <<>>, GetIfDict(payment_details, K_crypto_type, NA)),
           Line("Wallet Address", <<>>, GetIfDict(payment_details, K_wallet, NA))>>
    ELSE <<>>

PaymentDetails(payment_method, payment_details) ==
    IF payment_method = M_card
    THEN LET card_number == GetIfDict(payment_details, K_card_number, Str(<<>>))
         IN  <<Line("Card Number", <<>>, card_number),
               Line("Card Type", <<>>, CardTypeText(card_number)),
               Line("Expiry", <<>>, GetIfDict(payment_details, K_expiry, NA)),
               Line("CVV", <<>>, GetIfDict(payment_details, K_cvv, NA)),
               Line("Name", <<>>, GetIfDict(payment_details, K_name, NA))>>
    ELSE IF payment_method = M_paypal
    THEN <<Line("PayPal Email", <<>>, GetIfDict(payment_details, K_email, NA))>>
    ELSE IF payment_method = M_crypto
    THEN <<Line("Crypto Type", <<>>, GetIfDict(payment_details, K_crypto_type, NA)),
           Line("Wallet Address", <<>>, GetIfDict(payment_details, K_wallet, NA))>>
    ELSE <<>>

\* the message as the sequence of its rendered lines
Compose(amount, payment_method, user_info, payment_details, req, timestamp) ==
    BasicInfo(amount, payment_method, req, timestamp)
        \o <<Line("User Info:", <<>>, None)>>
        \o UserInfo(user_info)
        \o <<Line("Payment Details:", <<>>, None)>>
        \o PaymentDetails(payment_method, payment_details)
        \o <<Line("disclaimer", <<>>, None)>>

\* error_messages: four candidates for each of card, paypal, crypto and
\* bank, and the single default for any other method
ErrorPool(payment_method) ==
    IF payment_method \in {M_card, M_paypal, M_crypto, M_bank}
    THEN [i \in 1..4 |-> [pool |-> payment_method, n |-> i]]
    ELSE <<[pool |-> <<"d", "e", "f", "a", "u", "l", "t">>, n |-> 1]>>

NoMessage == [pool |-> <<>>, n |-> 0]

\* the records handed to app.logger
Incoming(req) ==
    [level |-> "info", msg |-> "Incoming",
     data |-> [t |-> "incoming", v |-> [method |-> req.method, remote_addr |-> req.remote_addr]]]
Processed(masked) == [level |-> "info", msg |-> "Processed payment attempt", data |-> masked]
ProcessingError == [level |-> "error", msg |-> "Error processing payment", data |-> None]

\* the except clause: the error is logged and the answer is 500
ServerError(req, posts, net_, records) ==
    [request |-> req,
     response |-> [status |-> 500, success |-> FALSE, error_code |-> "SERVER_ERROR",
                   message |-> NoMessage, transaction_id |-> <<>>, timestamp |-> <<>>],
     outbound |-> posts,
     net |-> net_,
     logged |-> records \o <<ProcessingError>>]

\* a replacement field of the message raised while it was formatted
Raises(message) == \E i \in 1..Len(message) : IsFault(message[i].text)

\* The handler from the try into requests.post, on request req with the
\* clock at now: either it raised and the request is answered, or the
\* message is composed and posted, and frame holds the handler's local
\* variables, the call of requests.post and the redirects it has followed.
Prepare(req, now) ==
    LET records == <<Incoming(req)>>
        raw == LoadData(req)
        data == sanitize_input(raw)
        failed == [answered |-> TRUE, answer |-> ServerError(req, <<>>, NoOutcome, records)]
    IN  IF IsFault(raw) \/ ~IsDict(data) THEN failed
        ELSE
        LET amount == Get(data, K_amount, Str(<<"0">>))
            method_raw == Get(data, K_payment_method, Str(M_unknown))
        IN  IF ~IsStr(method_raw) THEN failed
            ELSE
            LET payment_method == Lower(method_raw.v)
                user_info == Get(data, K_user_info, Dict(<<>>))
                payment_details == Get(data, K_payment_details, Dict(<<>>))
                timestamp == StampDisplay(now)
                message == Compose(amount, payment_method, user_info, payment_details,
                                   req, timestamp)
            IN  IF Raises(message) THEN failed
                ELSE [answered |-> FALSE,
                      frame |-> [request |-> req, data |-> data,
                                 payment_method |-> payment_method,
                                 timestamp |-> timestamp, message |-> message,
                                 logged |-> records,
                                 posts |-> requests_post(message), hops |-> <<>>]]

\* The handler from the call of send_to_telegram to the return, with the
\* local variables of frame, the outcome of the outbound POST, the clock at
\* later, the number randint returns and the index random.choice picks.
Conclude(frame, outcome, later, random_num, pick) ==
    LET sent == send_to_telegram(frame.message, outcome)
        records == frame.logged \o sent.logged
        masked == mask_sensitive_data(frame.data)
        pool == ErrorPool(frame.payment_method)
    IN  IF IsFault(masked) THEN ServerError(frame.request, sent.posts, outcome, records)
        ELSE [request |-> frame.request,
              response |->
                  [status |-> 400, success |-> FALSE,
                   error_code |-> "PAYMENT_DECLINED",
                   message |-> pool[((pick - 1) % Len(pool)) + 1],
                   transaction_id |-> generate_fake_transaction_id(later, random_num),
                   timestamp |-> frame.timestamp],
              outbound |-> sent.posts,
              net |-> outcome,
              logged |-> records \o <<Processed(masked)>>]

----------------------------------------------------------------------------
(* The requests drawn *)

Absent == [t |-> "absent", v |-> 0]

\* the mapping of the fields that are present, in this order
Payload(amount, method, user_info, details) ==
    Dict(SelectSeq(<<Entry(K_amount, amount), Entry(K_payment_method, method),
                     Entry(K_user_info, user_info), Entry(K_payment_details, details)>>,
                   LAMBDA e : e.v # Absent))

CardDetails ==
    Dict(<<Entry(K_card_number, Str(Card4111Full)),
           Entry(K_expiry, Str(<<"1", "2", "/", "3", "0">>)),
           Entry(K_cvv, Str(D123)),
           Entry(K_name, Str(<<"A", "l">>))>>)
PaypalDetails == Dict(<<Entry(K_email, Str(<<"a", "@", "b">>))>>)
CryptoDetails ==
    Dict(<<Entry(K_crypto_type, Str(<<"B", "T", "C">>)), Entry(K_wallet, Str(<<"<", "w", ">">>))>>)

Fifty == Str(<<"5", "0">>)
Amounts == {Absent, Fifty}
MethodNames ==
    {Absent, Str(M_card), Str(<<"C", "a", "r", "d">>), Str(M_paypal), Str(M_crypto),
     Str(M_bank), Str(<<"g", "i", "f", "t">>), Str(<<"S", "t", "r", "a", "ß", "e">>),
     Str(<<"C", "A", "F", "É">>)}
UserInfos == {Absent, Dict(<<Entry(K_name, Str(<<"<", "b", ">">>))>>), Str(<<"b", "o", "b">>)}
DetailsDrawn ==
    {Absent, CardDetails, Dict(<<Entry(K_card_number, Str(Card4111Hyphen))>>),
     Dict(<<Entry(K_card_number, Str(<<"5", Sup2>>))>>),
     Dict(<<Entry(K_card_number, Str(<<"4", Sup2>>))>>),
     PaypalDetails, CryptoDetails, Str(<<"x">>)}

\* payloads of the documented fields, strings or mappings of strings: every
\* method with every details block, and the other fields varied on a few
FieldPayloads ==
    {Payload(Fifty, m, Absent, d) : m \in MethodNames, d \in DetailsDrawn}
        \cup {Payload(a, Str(M_card), u, CardDetails) : a \in Amounts, u \in UserInfos}
        \cup {Payload(Absent, Absent, u, Absent) : u \in UserInfos}

K_card_token == <<"c", "a", "r", "d", "_", "t", "o", "k", "e", "n">>

\* payloads with a field of another type
OddPayloads ==
    {Payload(Absent, Num(5), Absent, Absent),
     Payload(Absent, None, Absent, Absent),
     Payload(Absent, Dict(<<Entry(K_name, Str(M_card))>>), Absent, Absent),
     Payload(Fifty, Str(M_card), Absent, List(<<Str(D123)>>)),
     Dict(<<Entry(K_card_token, Num(12345))>>),
     Dict(<<Entry(K_card_token, Num(0))>>),
     Dict(<<Entry(K_card_token, Bool(TRUE))>>),
     Dict(<<Entry(K_card_token, FiveNums)>>),
     Dict(<<Entry(M_card, FiveEntries)>>),
     Dict(<<Entry(M_card, CardDetails)>>),
     Dict(<<Entry(K_payment_method, Str(M_card)),
            Entry(K_payment_details, Dict(<<Entry(K_card_number, Num(4111))>>))>>),
     Dict(<<Entry(K_user_info, Dict(<<Entry(K_card_number, Num(4111))>>))>>),
     Dict(<<Entry(K_card_token, Str(D12345))>>)}

\* JSON bodies that are no mapping
NonMappings == {None, List(<<>>), List(<<Str(D123)>>), Str(D123), Num(1), Bool(FALSE)}

\* what the query string or a form body can hold: a flat mapping of strings
FlatPayloads ==
    {Dict(<<>>),
     Payload(Fifty, Absent, Absent, Absent),
     Payload(Fifty, Str(M_card), Absent, Absent),
     Payload(Absent, Str(M_paypal), Str(<<"b", "o", "b">>), Str(<<"x">>)),
     Dict(<<Entry(K_card_number, Str(Card4111Full)), Entry(K_cvv, Str(D123))>>)}

RemoteAddr == <<"1", "0", ".", "0", ".", "0", ".", "7">>

Request(method, is_json, args, json, form) ==
    [method |-> method, is_json |-> is_json, args |-> args, json |-> json, form |-> form,
     remote_addr |-> RemoteAddr]

Requests ==
    {Request("GET", FALSE, a, None, Dict(<<>>)) : a \in FlatPayloads}
    \cup {Request("POST", FALSE, Dict(<<>>), None, f) : f \in FlatPayloads}
    \cup {Request("POST", TRUE, Dict(<<>>), j, Dict(<<>>)) :
            j \in FieldPayloads \cup OddPayloads \cup NonMappings \cup {Unparseable}}
    \cup {Request("PUT", TRUE, Dict(<<Entry(K_amount, Str(D123))>>), Unparseable, Dict(<<>>))}

\* the requests a second worker serves, and those served while the issued
\* ids are recorded
FewRequests ==
    {Request("POST", TRUE, Dict(<<>>), Payload(Fifty, Str(M_card), Absent, CardDetails),
             Dict(<<>>)),
     Request("GET", FALSE, Payload(Absent, Str(M_bank), Absent, Absent), None, Dict(<<>>)),
     Request("POST", TRUE, Dict(<<>>), Unparseable, Dict(<<>>))}

----------------------------------------------------------------------------
(* The state of the server before any request *)

\* the worker threads of the server
Workers == {"w1", "w2"}

NoRequest == [method |-> "none"]
NoResponse == [status |-> 0]
NoFrame == [request |-> NoRequest]

NoCall == [posts |-> <<>>, net |-> NoOutcome, logged |-> <<>>]

HandlerIdle ==
    /\ request = NoRequest
    /\ response = NoResponse
    /\ outbound = <<>>
    /\ logged = <<>>
    /\ net = NoOutcome
    /\ inflight = [w \in Workers |-> NoFrame]
    /\ clock = 0
    /\ issued = <<>>
    /\ call = NoCall

HandlerVars == <<request, response, outbound, logged, net, inflight, clock, issued, call>>

----------------------------------------------------------------------------
(* SpecSanitize: sanitize_input applied to a drawn value *)

InitSanitize ==
    /\ inp \in SanValues(MaxDepth)
    /\ out = None
    /\ pc = "start"
    /\ HandlerIdle

Sanitize ==
    /\ pc = "start"
    /\ out' = sanitize_input(inp)
    /\ pc' = "done"
    /\ UNCHANGED <<inp, HandlerVars>>

NextSanitize == Sanitize

SpecSanitize == InitSanitize /\ [][NextSanitize]_vars

\* C8: sanitize_input is idempotent and structure-preserving: sanitizing the
\* result again changes nothing, a mapping keeps its key set, a list keeps
\* its length and order, and no string value of the result contains '<' or
\* '>'.
C8_SanitizeIdempotent ==
    pc = "done" =>
        /\ sanitize_input(out) = out
        /\ SameShape(inp, out)
        /\ \A s \in StringsIn(out) : ~Contains(s, <<"<">>) /\ ~Contains(s, <<">">>)

\* a nested value holding both markup characters was sanitized
C8_Witness ==
    /\ pc = "done"
    /\ IsDict(inp)
    /\ \E s \in StringsIn(inp) : Contains(s, <<"<">>) /\ Contains(s, <<">">>)
    /\ out # inp

----------------------------------------------------------------------------
(* SpecCard: detect_card_type applied to a drawn card number *)

InitCard ==
    /\ inp \in CardInputs
    /\ out = None
    /\ pc = "start"
    /\ HandlerIdle

Classify ==
    /\ pc = "start"
    /\ out' = detect_card_type(inp)
    /\ pc' = "done"
    /\ UNCHANGED <<inp, HandlerVars>>

NextCard == Classify

SpecCard == InitCard /\ [][NextCard]_vars

\* a non-empty string of the digits 0-9
Decimal(s) == s # <<>> /\ \A i \in 1..Len(s) : s[i] \in DigitSet

\* C3: for every string of the digits 0-9 of length >= 12, detect_card_type returns
\* the brand of the first matching rule in the specification's order; the
\* code's different branch order gives the same brand.
C3_ClassifierOrder ==
    (pc = "done" /\ IsStr(inp) /\ Decimal(inp.v) /\ Len(inp.v) >= 12)
        => TagOf(out) = SpecOrder(inp.v)

\* a 12-digit number with prefix 2300, classified by the last branch of the
\* code and the third rule of the specification
C3_Witness ==
    /\ pc = "done"
    /\ IsStr(inp) /\ Len(inp.v) >= 12
    /\ Prefix(inp.v, 4) = <<"2", "3", "0", "0">>
    /\ out = "Mastercard"

\* C4 as claimed: every non-digit character is stripped before classifying,
\* and fewer than 12 remaining digits give UNKNOWN.
C4_AsClaimed ==
    (pc = "done" /\ IsStr(inp)) =>
        LET digits == OnlyDigits(inp.v)
        IN  /\ Len(digits) < 12 => out = "Unknown"
            /\ (Len(digits) >= 12 /\ ~IsCardFault(out)) => TagOf(out) = SpecOrder(digits)

\* a character that str.isdigit() accepts
DigitLike(c) == c \in DigitSet \cup {"¹", "²", "³"}

\* C4 as amended: detect_card_type removes only the spaces; when what remains
\* is empty or holds a character that isdigit() rejects the result is
\* Unknown; there is no minimum length: a remainder of digits that begins
\* with 4 is Visa at any length, and a remainder of four or more of the
\* digits 0-9 gets the brand of the specification's rules. A remainder of
\* two or more digit characters that does not begin with 4 and has a
\* superscript digit among its first two raises ValueError.
C4_SpacesOnlyNoMinimum ==
    (pc = "done" /\ IsStr(inp)) =>
        LET rest == Replace(inp.v, " ", <<>>)
            digits == rest # <<>> /\ \A i \in 1..Len(rest) : DigitLike(rest[i])
        IN  /\ ~digits => out = "Unknown"
            /\ (digits /\ rest[1] = "4") => out = "Visa"
            /\ (Decimal(rest) /\ Len(rest) >= 4) => TagOf(out) = SpecOrder(rest)
            /\ (digits /\ rest[1] # "4" /\ Len(rest) >= 2 /\ ~Decimal(Prefix(rest, 2)))
                   => out = "ValueError"

\* a hyphenated number beginning with 4 was classified Unknown
C4_Witness ==
    /\ pc = "done"
    /\ inp = Str(Card4111Hyphen)
    /\ out = "Unknown"

----------------------------------------------------------------------------
(* SpecMask: mask_sensitive_data applied to a drawn record *)

InitMask ==
    /\ inp \in MaskValues(MaxMaskDepth)
    /\ out = None
    /\ pc = "start"
    /\ HandlerIdle

Mask ==
    /\ pc = "start"
    /\ out' = mask_sensitive_data(inp)
    /\ pc' = "done"
    /\ UNCHANGED <<inp, HandlerVars>>

NextMask == Mask

SpecMask == InitMask /\ [][NextMask]_vars

\* a string made of mask characters only
IsFullMask(y) == IsStr(y) /\ y.v # <<>> /\ \A i \in 1..Len(y.v) : y.v[i] = "*"

\* x holds, at any depth, an entry whose key contains cvv or cvc
RECURSIVE HasCvvEntry(_)
HasCvvEntry(x) ==
    IF IsDict(x)
    THEN \E i \in 1..Len(x.v) :
            \/ Contains(Lower(x.v[i].k), W_cvv)
            \/ Contains(Lower(x.v[i].k), W_cvc)
            \/ HasCvvEntry(x.v[i].v)
    ELSE IF IsList(x) THEN \E i \in 1..Len(x.v) : HasCvvEntry(x.v[i])
    ELSE FALSE

\* y, the redaction of x, shows a full mask for every entry of x whose key
\* contains cvv or cvc, and nothing of the value of such an entry elsewhere
RECURSIVE CvvHidden(_, _)
CvvHidden(x, y) ==
    IF IsDict(x) /\ IsDict(y)
    THEN \A i \in 1..Len(x.v) :
            IF Contains(Lower(x.v[i].k), W_cvv) \/ Contains(Lower(x.v[i].k), W_cvc)
            THEN IsFullMask(y.v[i].v)
            ELSE CvvHidden(x.v[i].v, y.v[i].v)
    ELSE IF IsList(x) /\ IsList(y)
    THEN \A i \in 1..Len(x.v) : CvvHidden(x.v[i], y.v[i])
    ELSE IF y.t = "fmt" THEN ~HasCvvEntry(y.v.arg)
    ELSE TRUE

\* C6: every entry, at any depth, whose key contains cvv or cvc (keys such
\* as card_cvv included) comes out as a full mask, never as the original
\* value or a suffix of it.
C6_CvvAlwaysFullyMasked ==
    (pc = "done" /\ ~IsFault(out)) => CvvHidden(inp, out)

----------------------------------------------------------------------------
(* Spec: the threaded server. A worker runs process_payment up to the     *)
(* outbound POST, waits for its outcome while the clock and the other     *)
(* worker go on, and then runs it to the return. The request just         *)
(* answered stays in request, response, outbound, logged and net until    *)
(* the response has left.                                                 *)

HelperIdle ==
    /\ inp = None
    /\ out = None
    /\ pc = "idle"

Init ==
    /\ HelperIdle
    /\ HandlerIdle

\* no response is waiting to leave
Quiet == response = NoResponse

\* the requests a worker is let to serve
Inbox(w) == IF w = "w1" THEN Requests ELSE FewRequests

\* the wall clock advances by a second
Tick ==
    /\ Quiet
    /\ clock < MaxClock
    /\ clock' = clock + 1
    /\ UNCHANGED <<inp, out, pc, request, response, outbound, logged, net, inflight, issued,
                   call>>

\* the request is answered
Answer(a) ==
    /\ request' = a.request
    /\ response' = a.response
    /\ outbound' = a.outbound
    /\ logged' = a.logged
    /\ net' = a.net

\* process_payment from its entry to the outbound POST, on a request of reqs
Begin(w, reqs) ==
    /\ Quiet
    /\ inflight[w] = NoFrame
    /\ \E req \in reqs :
        LET p == Prepare(req, clock)
        IN  IF p.answered
            THEN Answer(p.answer) /\ UNCHANGED inflight
            ELSE /\ inflight' = [inflight EXCEPT ![w] = p.frame]
                 /\ UNCHANGED <<request, response, outbound, logged, net>>
    /\ UNCHANGED <<inp, out, pc, clock, call>>

\* a worker takes a request and runs the handler until it waits for the POST
ProcessPaymentBegin(w) ==
    /\ Begin(w, Inbox(w))
    /\ UNCHANGED issued

\* the request of a waiting worker is answered by a redirect: requests sends
\* the request that follows it and the worker waits again
ProcessPaymentRedirect(w) ==
    /\ Quiet
    /\ inflight[w] # NoFrame
    /\ \E c \in RedirectStati :
        /\ CanFollow(inflight[w].hops, c, DeliveryOutcomes)
        /\ inflight' = [inflight EXCEPT ![w].hops = Append(@, c),
                                        ![w].posts = Redirected(@, c)]
    /\ UNCHANGED <<inp, out, pc, request, response, outbound, logged, net, clock, issued,
                   call>>

\* the call of a waiting worker comes to its end and the handler runs to
\* its return
ProcessPaymentEnd(w) ==
    /\ Quiet
    /\ inflight[w] # NoFrame
    /\ \E outcome \in EndsAfter(inflight[w].hops, DeliveryOutcomes), draw \in Draws :
        Answer(Conclude(inflight[w], outcome, clock, draw.random_num, draw.pick))
    /\ inflight' = [inflight EXCEPT ![w] = NoFrame]
    /\ UNCHANGED <<inp, out, pc, clock, issued, call>>

\* the response leaves: nothing of a request outlives it but the clock
Finish ==
    /\ ~Quiet
    /\ request' = NoRequest
    /\ response' = NoResponse
    /\ outbound' = <<>>
    /\ logged' = <<>>
    /\ net' = NoOutcome
    /\ UNCHANGED <<inp, out, pc, inflight, clock, issued, call>>

Next ==
    \/ \E w \in Workers : ProcessPaymentBegin(w)
    \/ \E w \in Workers : ProcessPaymentRedirect(w)
    \/ \E w \in Workers : ProcessPaymentEnd(w)
    \/ Finish
    \/ Tick

Spec == Init /\ [][Next]_vars

Handled == request # NoRequest

\* the payload the request last handled submitted: the query string of a
\* GET, else the JSON body when the request is JSON, else the form
Submitted ==
    IF request.method = "GET" THEN request.args
    ELSE IF request.is_json THEN request.json
    ELSE request.form

\* a payload of strings
AllStrings(d) == \A i \in 1..Len(d.v) : IsStr(d.v[i].v)

\* A well-formed request: its payload is a non-empty mapping of the fields
\* of the intake record, amount and payment_method strings, user_info and
\* payment_details strings or mappings of strings; further fields are strings.
WellFormed ==
    /\ Handled
    /\ IsDict(Submitted) /\ Submitted.v # <<>>
    /\ \A i \in 1..Len(Submitted.v) :
        LET e == Submitted.v[i]
        IN  IF e.k \in {K_user_info, K_payment_details}
            THEN IsStr(e.v) \/ (IsDict(e.v) /\ AllStrings(e.v))
            ELSE IsStr(e.v)

Declined ==
    /\ response.status = 400
    /\ response.success = FALSE
    /\ response.error_code = "PAYMENT_DECLINED"

ServerErrored ==
    /\ response.status = 500
    /\ response.success = FALSE
    /\ response.error_code = "SERVER_ERROR"

\* C1: every well-formed request is answered 400, success false,
\* PAYMENT_DECLINED, with a non-empty transaction id, whatever the outbound
\* call came to; a failed delivery never makes the answer SERVER_ERROR.
C1_DeclinedWhateverDelivery ==
    WellFormed =>
        /\ Declined
        /\ Len(response.transaction_id) > 0

EmptyPayload == Handled /\ Submitted = Dict(<<>>)
Malformed == Handled /\ ~IsDict(Submitted)

\* C2 as claimed: an empty or malformed payload (empty mapping, unparseable
\* JSON, a JSON value that is no mapping) is answered 400 INVALID_REQUEST and
\* no outbound call is made.
C2_AsClaimed ==
    (EmptyPayload \/ Malformed) =>
        /\ response.status = 400
        /\ response.error_code = "INVALID_REQUEST"
        /\ outbound = <<>>

\* C2 as amended: an empty mapping (empty query string, empty form, JSON {})
\* is handled like any other mapping: one outbound call, then 400
\* PAYMENT_DECLINED. Unparseable JSON and a JSON value that is no mapping are
\* answered 500 SERVER_ERROR, and no outbound call is made for them.
C2_EmptyDeclinedMalformedServerError ==
    /\ EmptyPayload => (Declined /\ Len(outbound) = 1)
    /\ Malformed => (ServerErrored /\ outbound = <<>>)

\* an empty form was notified and declined
C2_Witness ==
    /\ EmptyPayload
    /\ request.method = "POST" /\ ~request.is_json
    /\ Len(outbound) = 1
    /\ Declined

\* the request named the method card (in any letter case) and was composed
CardRequest ==
    /\ Handled
    /\ IsDict(Submitted)
    /\ IsStr(Get(Submitted, K_payment_method, None))
    /\ Lower(Get(Submitted, K_payment_method, None).v) = M_card
    /\ outbound # <<>>

\* the lines of the composed message between the "Payment Details:" heading
\* and the disclaimer
DetailsBlock ==
    LET m == outbound[1].text
        h == CHOOSE i \in 1..Len(m) : m[i].kind = "Payment Details:"
    IN  SubSeq(m, h + 1, Len(m) - 1)

BlockKinds == [i \in 1..Len(DetailsBlock) |-> DetailsBlock[i].kind]

\* the text of the block's line of this kind
BlockText(kind) ==
    DetailsBlock[CHOOSE i \in 1..Len(DetailsBlock) : DetailsBlock[i].kind = kind].text

\* the value the sanitized payload holds for a payment detail
SubmittedDetail(key, default) ==
    GetIfDict(Get(sanitize_input(Submitted), K_payment_details, Dict(<<>>)), key, default)

\* at most the last four characters of the shown string are digits
OnlyLastFourVisible(shown) ==
    /\ IsStr(shown)
    /\ \A i \in 1..Len(shown.v) : i <= Len(shown.v) - 4 => shown.v[i] \notin DigitSet

\* C5 as claimed: for a card request the payment-details block renders
\* exactly the brand, the number, the expiry and the name, and the number
\* only masked: at most its last four characters are visible.
C5_AsClaimed ==
    CardRequest =>
        /\ {BlockKinds[i] : i \in 1..Len(BlockKinds)}
               = {"Card Type", "Card Number", "Expiry", "Name"}
        /\ OnlyLastFourVisible(BlockText("Card Number"))

\* C5 as amended: for a card request whose notification was composed the
\* payment-details block renders, in this order, the number, the brand, the
\* expiry, the CVV and the name; the number and the CVV are rendered in
\* full, as submitted and sanitized, without any masking.
C5_NumberAndCvvInFull ==
    CardRequest =>
        /\ BlockKinds = <<"Card Number", "Card Type", "Expiry", "CVV", "Name">>
        /\ BlockText("Card Number") = SubmittedDetail(K_card_number, Str(<<>>))
        /\ BlockText("CVV") = SubmittedDetail(K_cvv, NA)
        /\ BlockText("Card Type") = CardTypeText(SubmittedDetail(K_card_number, Str(<<>>)))

\* a card request with a 16-digit number was composed with the number in full
C5_Witness ==
    /\ CardRequest
    /\ SubmittedDetail(K_card_number, Str(<<>>)) = Str(Card4111Full)
    /\ BlockText("Card Number") = Str(Card4111Full)
    /\ BlockText("CVV") = Str(D123)
    /\ BlockText("Card Type") = Tag("Visa")

\* C10: mask_sensitive_data returns a redacted record for every record of
\* the closed value type, so a request that was composed and delivered is
\* answered PAYMENT_DECLINED with a log entry, never SERVER_ERROR.
C10_RedactionNeverFaults ==
    (Handled /\ outbound # <<>>) =>
        /\ ~IsFault(mask_sensitive_data(sanitize_input(Submitted)))
        /\ Declined
        /\ \E i \in 1..Len(logged) :
               logged[i].level = "info" /\ logged[i].msg = "Processed payment attempt"

----------------------------------------------------------------------------
(* SpecNotify: one thread calls send_to_telegram on a drawn message and   *)
(* waits in requests.post for the answer, while a worker of the server    *)
(* handles requests.                                                      *)

Repeat(c, n) == [i \in 1..n |-> c]
NotifyLengths == (0..MaxPad) \cup ((4096 - MaxPad)..(4096 + MaxPad))
NotifyMessages == {Str(Repeat("m", n)) : n \in NotifyLengths}

InitNotify ==
    /\ inp \in NotifyMessages
    /\ out = None
    /\ pc = "start"
    /\ HandlerIdle

\* send_to_telegram from its entry into requests.post: the POST is made and
\* the call waits for the answer
SendPost ==
    /\ pc = "start"
    /\ call' = [call EXCEPT !.posts = requests_post(inp)]
    /\ pc' = "posted"
    /\ UNCHANGED <<inp, out, request, response, outbound, logged, net, inflight, clock, issued>>

\* the request the call waits on is answered by a redirect: requests sends
\* the request that follows it and the call waits again
SendRedirect ==
    /\ pc = "posted"
    /\ \E c \in RedirectStati :
        /\ CanFollow(call.net.hops, c, Outcomes)
        /\ call' = [call EXCEPT !.net.hops = Append(@, c), !.posts = Redirected(@, c)]
    /\ UNCHANGED <<inp, out, pc, request, response, outbound, logged, net, inflight, clock,
                   issued>>

\* the call of requests.post comes to its end and send_to_telegram runs to
\* its return
SendReturn ==
    /\ pc = "posted"
    /\ \E outcome \in EndsAfter(call.net.hops, Outcomes) :
        LET r == send_to_telegram(inp, outcome)
        IN  /\ out' = Bool(r.ok)
            /\ call' = [posts |-> r.posts, net |-> outcome, logged |-> r.logged]
    /\ pc' = "done"
    /\ UNCHANGED <<inp, request, response, outbound, logged, net, inflight, clock, issued>>

NextNotify ==
    \/ SendPost
    \/ SendRedirect
    \/ SendReturn
    \/ ProcessPaymentBegin("w2")
    \/ ProcessPaymentRedirect("w2")
    \/ ProcessPaymentEnd("w2")
    \/ Finish

SpecNotify == InitNotify /\ [][NextNotify]_vars

\* the call has made its POSTs: it waits for the answer or has returned
Posted == pc \in {"posted", "done"}

\* C7 as claimed: an empty message or one longer than 4096 characters makes
\* send_to_telegram return False without an outbound call; a call is made
\* only for lengths 1..4096.
C7_AsClaimed ==
    (Posted /\ (Len(inp.v) = 0 \/ Len(inp.v) > 4096)) =>
        /\ call.posts = <<>>
        /\ pc = "done" => out = Bool(FALSE)

\* C7 as amended: send_to_telegram checks no length: for every message, the
\* empty one and those longer than 4096 characters included, it calls
\* requests.post exactly once, and the first HTTP request of that call is a
\* POST carrying the message; for every redirect requests follows inside
\* the call one more request is sent, and until the call ends nothing is
\* returned or logged. It returns True exactly when
\* requests.post returns a response whose status is no 4xx and no 5xx, and
\* False when that status is a 4xx or 5xx or when the call raises.
C7_AlwaysOneCall ==
    /\ Posted =>
        /\ Len(call.posts) = 1
        /\ call.posts[1].text = inp
        /\ call.posts[1].wire[1] = [method |-> "POST", text |-> inp]
        /\ Len(call.posts[1].wire) = 1 + Len(call.net.hops)
    /\ pc = "posted" => out = None /\ call.logged = <<>>
    /\ pc = "done" =>
        /\ out = Bool(call.net.kind = "status"
                          /\ (call.net.code < 400 \/ call.net.code > 599))

\* a message of 4097 characters was posted, redirected by a 302 to an answer
\* of 404, and the call returned False, while the server's worker had a
\* request of its own in flight
C7_Witness ==
    /\ pc = "done"
    /\ Len(inp.v) = 4097
    /\ Len(call.posts) = 1
    /\ call.posts[1].text = inp
    /\ call.net.hops = <<302>>
    /\ call.net.code = 404
    /\ out = Bool(FALSE)
    /\ inflight["w2"] # NoFrame

----------------------------------------------------------------------------
(* SpecIds: the threaded server recording the transaction ids it issues *)

\* the requests answered and those in flight
Taken == Len(issued) + Cardinality({w \in Workers : inflight[w] # NoFrame})

\* a worker takes one of a few requests
ProcessPaymentBeginRecorded(w) ==
    /\ Taken < MaxRequests
    /\ Begin(w, FewRequests)
    /\ UNCHANGED issued

\* the handler of a waiting worker runs to its return, the id of a
\* PAYMENT_DECLINED response recorded with the second and the random number
\* it was made from
ProcessPaymentEndRecorded(w) ==
    /\ Quiet
    /\ inflight[w] # NoFrame
    /\ \E outcome \in EndsAfter(inflight[w].hops, DeliveryOutcomes), draw \in Draws :
        LET a == Conclude(inflight[w], outcome, clock, draw.random_num, draw.pick)
        IN  /\ Answer(a)
            /\ issued' = IF a.response.error_code = "PAYMENT_DECLINED"
                         THEN Append(issued, [id |-> a.response.transaction_id,
                                              second |-> clock,
                                              random_num |-> draw.random_num])
                         ELSE issued
    /\ inflight' = [inflight EXCEPT ![w] = NoFrame]
    /\ UNCHANGED <<inp, out, pc, clock, call>>

NextIds ==
    \/ \E w \in Workers : ProcessPaymentBeginRecorded(w)
    \/ \E w \in Workers : ProcessPaymentRedirect(w)
    \/ \E w \in Workers : ProcessPaymentEndRecorded(w)
    \/ Finish
    \/ Tick

SpecIds == Init /\ [][NextIds]_vars

\* C9 as claimed: the transaction ids of any two PAYMENT_DECLINED responses
\* of the process differ, also for two requests handled in the same second.
C9_AsClaimed ==
    \A i, j \in 1..Len(issued) : i # j => issued[i].id # issued[j].id

\* C9 as amended: the transaction ids of two PAYMENT_DECLINED responses
\* differ whenever they were generated in different clock seconds or with
\* different random suffixes; two requests handled in the same second that
\* draw the same suffix (one chance in 9000) get the same id.
C9_DifferUnlessSameSecondAndSuffix ==
    \A i, j \in 1..Len(issued) :
        i # j => ((issued[i].id = issued[j].id)
                    <=> (/\ issued[i].second = issued[j].second
                         /\ issued[i].random_num = issued[j].random_num))

\* two requests were answered with the same transaction id
C9_Witness ==
    /\ Len(issued) >= 2
    /\ issued[1].id = issued[2].id

====
